---- MODULE Spec2Model ----
(***************************************************************************)
(* Model of the MongooseTransactional method decorator                     *)
(* (src/controllers/decorators/mongoose/MongooseTransactional.ts) and of   *)
(* the Route decorator that wraps it (src/controllers/decorators/Routes.ts) *)
(*                                                                         *)
(* One request r walks through the wrapped function line by line.  Every   *)
(* call on the storage layer (startSession, startTransaction,              *)
(* commitTransaction, abortTransaction, endSession) is a call into the     *)
(* external driver: it either returns or raises, chosen nondeterministically*)
(* The decorated method H is an input of the decorator: it returns a plain *)
(* value, throws, or returns a promise that later resolves or rejects, and *)
(* it may or may not have sent its own response.                           *)
(*                                                                         *)
(* The two routes of AccountController run transferFunds                   *)
(* (src/controllers/AccountController.ts) against the Account collection:  *)
(* through the wrapper with a session, or directly without one.            *)
(***************************************************************************)
EXTENDS Integers, Sequences, FiniteSets, TLC

\* number of requests in flight at the same time
NumReqs == 2

\* largest account_balance an account starts with
MaxBalance == 2

\* largest amount a request asks to transfer
MaxAmount == 2

\* largest number of documents that share one account_number
MaxDup == 2

Reqs == 1..NumReqs

\* value of `session` before startSession() has returned one
NoSession == 0

\* the shapes the decorated method can have (MongooseTransactional.ts:24-27)
Kinds == {"syncReturn", "syncThrow", "asyncResolve", "asyncReject"}

\* a decorated method: its shape, and whether it sends a response itself
Handlers == [kind : Kinds, responds : BOOLEAN]

NoHandler == [kind |-> "none", responds |-> FALSE]

\* what the decorated method returns / what its promise resolves to
HValue == "value"

Undefined == "undefined"

\* the response a decorated method sends by itself before it completes:
\* res.status(200).send("Transfer realized!") before returning
\* (AccountController.ts:64-65), res.status(400).send("Destination account is
\* blocked!") before throwing (AccountController.ts:67-68)
HandlerResponse(k) ==
    IF k \in {"syncThrow", "asyncReject"}
    THEN [by |-> "handler", status |-> 400, body |-> "Destination account is blocked!"]
    ELSE [by |-> "handler", status |-> 200, body |-> "Transfer realized!"]

\* MongooseTransactional.ts:62
WrapperResponse == [by |-> "wrapper", status |-> 500, body |-> "An error occurred!"]

\* Routes.ts:30
RouteResponse ==
    [by |-> "route", status |-> 500,
     body |-> "An unexpected error occurred while executing the request"]

\* the account numbers requests name; OtherAccount is an account no request names
OriginNumber == 1

DestinationNumber == 2

OtherAccount == 3

Balances == 0..MaxBalance

\* req.body.amount: any integer the client sends, negative ones included
Amounts == (0 - 1)..MaxAmount

\* accountSchema (unnamed/part_001:3-8)
NewAccount(n, b, k) == [account_number |-> n, account_balance |-> b, is_blocked |-> k]

\* the collection with n1 documents numbered OriginNumber (balance b1,
\* is_blocked k1), n2 documents numbered DestinationNumber (b2, k2) and the
\* other account; the _id of a document is its place among 2 * MaxDup + 1
Collection(n1, b1, k1, n2, b2, k2) ==
    [i \in (1..n1) \cup ((MaxDup + 1)..(MaxDup + n2)) \cup {2 * MaxDup + 1} |->
        IF i <= MaxDup THEN NewAccount(OriginNumber, b1, k1)
        ELSE IF i <= 2 * MaxDup THEN NewAccount(DestinationNumber, b2, k2)
        ELSE NewAccount(OtherAccount, MaxBalance, FALSE)]

\* createInitialAccountState (unnamed/part_000:7-21): one unblocked account
\* and one blocked account with the same balance
SeedDB == Collection(1, MaxBalance, FALSE, 1, MaxBalance, TRUE)

\* the states of the collection a request can find
InitialDBs ==
    {Collection(n1, b1, k1, n2, b2, k2) :
        n1 \in 0..MaxDup, b1 \in Balances, k1 \in BOOLEAN,
        n2 \in 0..MaxDup, b2 \in Balances, k2 \in BOOLEAN}

\* the two routes of AccountController (AccountController.ts:17, 23)
Endpoints == {"transactional_transfer", "not_transactional_transfer"}

\* req.body
Bodies ==
    [origin_account_number : {OriginNumber},
     destination_account_number : {OriginNumber, DestinationNumber},
     amount : Amounts]

NoRequest ==
    [endpoint |-> "none", origin_account_number |-> 0,
     destination_account_number |-> 0, amount |-> 0]

\* transactionalTransferFundsTo / notTransactionalTransferFundsTo as the
\* method the decorators are applied to
TransferHandler == [kind |-> "transfer", responds |-> TRUE]

VARIABLES
    pc,               \* position of request r in Route / wrapper / handler
    handler,          \* originalDescriptor: the decorated method of request r
    session,          \* const session (NoSession until startSession returns)
    nextSession,      \* number of sessions the storage layer has handed out
    isAsyncMethod,    \* let isAsyncMethod
    calls,            \* calls made on the session, in order, with their outcome
    compl,            \* pending completion of the try statement being left
    result,           \* const result = await originalDescriptorReturn
    hstate,           \* state of the decorated method / of the promise it returned
    wres,             \* outcome of the promise returned by the wrapped function
    sends,            \* every res.status(..).send(..) attempted, in order
    writableFinished, \* res.writableFinished
    unhandled,        \* the promise returned by Route rejected
    db,               \* the Account collection (committed documents, by _id)
    db0,              \* the collection before any request
    txn,              \* writes made under the session of request r, not yet committed
    req,              \* the route and req.body of request r
    originAccount,    \* let originAccount (result of find)
    destAccount,      \* let destAccount (result of find)
    dbops             \* operations request r made on the collection, in order

\* the state of transferFunds and of the storage layer
store == <<db, db0, txn, req, originAccount, destAccount, dbops>>

vars == <<pc, handler, session, nextSession, isAsyncMethod, calls, compl, result,
          hstate, wres, sends, writableFinished, unhandled, store>>

\* no write under the session
NoWrites == <<>>

Pending == [state |-> "pending", value |-> Undefined]

Init ==
    /\ pc = [r \in Reqs |-> "idle"]
    /\ handler = [r \in Reqs |-> NoHandler]
    /\ session = [r \in Reqs |-> NoSession]
    /\ nextSession = 0
    /\ isAsyncMethod = [r \in Reqs |-> FALSE]
    /\ calls = [r \in Reqs |-> <<>>]
    /\ compl = [r \in Reqs |-> "normal"]
    /\ result = [r \in Reqs |-> Undefined]
    /\ hstate = [r \in Reqs |-> "notInvoked"]
    /\ wres = [r \in Reqs |-> Pending]
    /\ sends = [r \in Reqs |-> <<>>]
    /\ writableFinished = [r \in Reqs |-> FALSE]
    /\ unhandled = [r \in Reqs |-> FALSE]
    /\ db = SeedDB
    /\ db0 = db
    /\ txn = [r \in Reqs |-> NoWrites]
    /\ req = [r \in Reqs |-> NoRequest]
    /\ originAccount = [r \in Reqs |-> <<>>]
    /\ destAccount = [r \in Reqs |-> <<>>]
    /\ dbops = [r \in Reqs |-> <<>>]

----------------------------------------------------------------------------
(* helpers *)

\* res.headersSent: a response has been written for request r
HeadersSent(r) == sends[r] # <<>>

\* the session calls of request r after appending one more
Called(r, op, ok) == [calls EXCEPT ![r] = Append(@, [op |-> op, ok |-> ok])]

\* res.status(s).send(b): the attempt is recorded; only the first one reaches
\* the client (a later one raises ERR_HTTP_HEADERS_SENT, see SendRaises)
Sent(r, resp) == [sends EXCEPT ![r] = Append(@, resp)]

SendRaises(r) == HeadersSent(r)

\* the wrapped (async) function finishes: its promise settles
Settled(r, c) ==
    [wres EXCEPT ![r] =
        IF c = "throw" THEN [state |-> "rejected", value |-> Undefined]
        ELSE IF c = "return" THEN [state |-> "resolved", value |-> result[r]]
        ELSE [state |-> "resolved", value |-> Undefined]]

Goto(r, label) == pc' = [pc EXCEPT ![r] = label]

\* transferFunds got a session: `if(session)` (AccountController.ts:33, 51)
Scoped(r) == session[r] # NoSession

\* the collection with the writes w of a transaction applied to it
Applied(w) ==
    [i \in DOMAIN db |->
        IF i \in DOMAIN w THEN [db[i] EXCEPT !.account_balance = w[i]] ELSE db[i]]

\* what a read of request r sees: under a session, the committed documents
\* and the writes of its own transaction
View(r) == IF Scoped(r) THEN Applied(txn[r]) ELSE db

\* the elements of a set of _ids in ascending order
Ascending(S) ==
    CHOOSE q \in [1..Cardinality(S) -> S] :
        \A i, j \in 1..Cardinality(S) : i < j => q[i] < q[j]

\* Account.find({"account_number": n}) on the collection v: the matching
\* documents as an array
Find(v, n) ==
    LET ids == Ascending({i \in DOMAIN v : v[i].account_number = n})
    IN [k \in 1..Len(ids) |->
           [id |-> ids[k], account_balance |-> v[ids[k]].account_balance,
            is_blocked |-> v[ids[k]].is_blocked]]

\* the operations of request r on the collection after one more
OperatedUnscoped(r, op, ok) ==
    [dbops EXCEPT ![r] = Append(@, [op |-> op, scoped |-> FALSE, ok |-> ok])]

Operated(r, op, ok) ==
    [dbops EXCEPT ![r] = Append(@, [op |-> op, scoped |-> Scoped(r), ok |-> ok])]

\* res.status(status).send(body) in transferFunds
Response(status, body) == [by |-> "handler", status |-> status, body |-> body]

----------------------------------------------------------------------------
(* Route (Routes.ts:15-17) calling the wrapped function                     *)
(* (MongooseTransactional.ts:12-14)                                         *)

\* A request arrives: Route applies the wrapped function, which awaits
\* startSession().  h is the method the decorator was applied to.
Request(r, h) ==
    /\ pc[r] = "idle"
    /\ handler' = [handler EXCEPT ![r] = h]
    /\ Goto(r, "startSession")
    /\ UNCHANGED <<session, nextSession, isAsyncMethod, calls, compl, result,
                   hstate, wres, sends, writableFinished, unhandled, store>>

\* StartSession keeping one session for all the invocations
StartSessionShared(r) ==
    /\ pc[r] = "startSession"
    /\ \E ok \in BOOLEAN :
        IF ok
        THEN /\ nextSession' = 1
             /\ session' = [session EXCEPT ![r] = 1]
             /\ isAsyncMethod' = [isAsyncMethod EXCEPT ![r] = FALSE]
             /\ Goto(r, "startTransaction")
             /\ UNCHANGED wres
        ELSE /\ wres' = Settled(r, "throw")
             /\ Goto(r, "settled")
             /\ UNCHANGED <<session, nextSession, isAsyncMethod>>
    /\ UNCHANGED <<handler, calls, compl, result, hstate, sends,
                   writableFinished, unhandled, store>>

\* StartSession with the failure of startSession() swallowed: the function
\* goes on without a session
StartSessionSwallowed(r) ==
    /\ pc[r] = "startSession"
    /\ \E ok \in BOOLEAN :
        IF ok
        THEN /\ nextSession' = nextSession + 1
             /\ session' = [session EXCEPT ![r] = nextSession + 1]
        ELSE UNCHANGED <<session, nextSession>>
    /\ isAsyncMethod' = [isAsyncMethod EXCEPT ![r] = FALSE]
    /\ Goto(r, "startTransaction")
    /\ UNCHANGED <<handler, calls, compl, result, hstate, wres, sends,
                   writableFinished, unhandled, store>>

\* line 14-16: const session = await (await db).startSession(); args[2] = session.
\* If startSession raises, the async function rejects at once: the try
\* statement has not been entered.
StartSession(r) ==
    /\ pc[r] = "startSession"
    /\ \E ok \in BOOLEAN :
        IF ok
        THEN /\ nextSession' = nextSession + 1
             /\ session' = [session EXCEPT ![r] = nextSession + 1]
             /\ isAsyncMethod' = [isAsyncMethod EXCEPT ![r] = FALSE]
             /\ Goto(r, "startTransaction")
             /\ UNCHANGED wres
        ELSE /\ wres' = Settled(r, "throw")
             /\ Goto(r, "settled")
             /\ UNCHANGED <<session, nextSession, isAsyncMethod>>
    /\ UNCHANGED <<handler, calls, compl, result, hstate, sends,
                   writableFinished, unhandled, store>>

\* StartTransaction with the raise of startTransaction() ignored: the
\* decorated method is applied all the same
StartTransactionIgnored(r) ==
    /\ pc[r] = "startTransaction"
    /\ \E ok \in BOOLEAN : calls' = Called(r, "startTransaction", ok)
    /\ Goto(r, "apply")
    /\ UNCHANGED <<handler, session, nextSession, isAsyncMethod, compl, result,
                   hstate, wres, sends, writableFinished, unhandled, store>>

\* line 20: session.startTransaction(); a raise goes to the outer catch
StartTransaction(r) ==
    /\ pc[r] = "startTransaction"
    /\ \E ok \in BOOLEAN :
        /\ calls' = Called(r, "startTransaction", ok)
        /\ Goto(r, IF ok THEN "apply" ELSE "outerCatch")
    /\ UNCHANGED <<handler, session, nextSession, isAsyncMethod, compl, result,
                   hstate, wres, sends, writableFinished, unhandled, store>>

\* line 24-28: originalDescriptor.apply(target, args) and the Promise test.
\* A synchronous method runs to its end here (sending its response first when
\* it sends one); an async method returns a pending promise
\* (transactionalTransferFundsTo runs up to the first find of transferFunds).
Apply(r) ==
    /\ pc[r] = "apply"
    /\ LET k == handler[r].kind IN
        /\ hstate' = [hstate EXCEPT ![r] =
                        CASE k = "syncReturn" -> "returned"
                          [] k = "syncThrow" -> "threw"
                          [] OTHER -> "pending"]
        /\ sends' = IF k \in {"syncReturn", "syncThrow"} /\ handler[r].responds
                    THEN Sent(r, HandlerResponse(handler[r].kind)) ELSE sends
        /\ isAsyncMethod' = [isAsyncMethod EXCEPT ![r] =
                                k \in {"asyncResolve", "asyncReject", "transfer"}]
        /\ Goto(r, CASE k = "syncReturn" -> "outerFinally"
                     [] k = "syncThrow" -> "outerCatch"
                     [] k = "transfer" -> "findOrigin"
                     [] OTHER -> "awaitHandler")
    /\ UNCHANGED <<handler, session, nextSession, calls, compl, result, wres,
                   writableFinished, unhandled, store>>

\* line 30: const result = await originalDescriptorReturn.  The promise of the
\* decorated method settles (after the method sent its response, when it
\* sends one): resolved goes on to the commit, rejected to the inner catch.
AwaitHandler(r) ==
    /\ pc[r] = "awaitHandler"
    /\ sends' = IF handler[r].responds THEN Sent(r, HandlerResponse(handler[r].kind)) ELSE sends
    /\ IF handler[r].kind = "asyncResolve"
       THEN /\ hstate' = [hstate EXCEPT ![r] = "resolved"]
            /\ result' = [result EXCEPT ![r] = HValue]
            /\ Goto(r, "commit")
       ELSE /\ hstate' = [hstate EXCEPT ![r] = "rejected"]
            /\ Goto(r, "innerCatch")
            /\ UNCHANGED result
    /\ UNCHANGED <<handler, session, nextSession, isAsyncMethod, calls, compl,
                   wres, writableFinished, unhandled, store>>

\* Commit that returns without having applied the writes
CommitDiscards(r) ==
    /\ pc[r] = "commit"
    /\ \E ok \in BOOLEAN :
        /\ calls' = Called(r, "commitTransaction", ok)
        /\ IF ok
           THEN /\ compl' = [compl EXCEPT ![r] = "return"]
                /\ Goto(r, "innerFinally")
                /\ db' = db
           ELSE /\ Goto(r, "innerCatch")
                /\ UNCHANGED compl
                /\ \E applied \in BOOLEAN : db' = IF applied THEN Applied(txn[r]) ELSE db
    /\ txn' = [txn EXCEPT ![r] = NoWrites]
    /\ UNCHANGED <<handler, session, nextSession, isAsyncMethod, result, hstate,
                   wres, sends, writableFinished, unhandled>>
    /\ UNCHANGED <<db0, req, originAccount, destAccount, dbops>>

\* line 33-36: await session.commitTransaction(); return result.
\* The return leaves the inner try through its finally block; a raise of
\* commitTransaction is inside the inner try and lands in the inner catch.
\* A commit that returns has applied the writes of the transaction; of a
\* commit that raises the driver does not tell whether they were applied.
Commit(r) ==
    /\ pc[r] = "commit"
    /\ \E ok \in BOOLEAN :
        /\ calls' = Called(r, "commitTransaction", ok)
        /\ IF ok
           THEN /\ compl' = [compl EXCEPT ![r] = "return"]
                /\ Goto(r, "innerFinally")
                /\ db' = Applied(txn[r])
           ELSE /\ Goto(r, "innerCatch")
                /\ UNCHANGED compl
                /\ \E applied \in BOOLEAN : db' = IF applied THEN Applied(txn[r]) ELSE db
    /\ txn' = [txn EXCEPT ![r] = NoWrites]
    /\ UNCHANGED <<handler, session, nextSession, isAsyncMethod, result, hstate,
                   wres, sends, writableFinished, unhandled>>
    /\ UNCHANGED <<db0, req, originAccount, destAccount, dbops>>

\* InnerCatch that only logs the error and does not abort
InnerCatchNoAbort(r) ==
    /\ pc[r] = "innerCatch"
    /\ compl' = [compl EXCEPT ![r] = "normal"]
    /\ Goto(r, "innerFinally")
    /\ UNCHANGED <<handler, session, nextSession, isAsyncMethod, calls, result,
                   hstate, wres, sends, writableFinished, unhandled, store>>

\* line 37-42: inner catch: await session.abortTransaction().  No response is
\* sent here.  A raise of abortTransaction leaves the catch block by throwing.
\* The writes of the transaction are never applied after an abort.
InnerCatch(r) ==
    /\ pc[r] = "innerCatch"
    /\ \E ok \in BOOLEAN :
        /\ calls' = Called(r, "abortTransaction", ok)
        /\ compl' = [compl EXCEPT ![r] = IF ok THEN "normal" ELSE "throw"]
    /\ Goto(r, "innerFinally")
    /\ txn' = [txn EXCEPT ![r] = NoWrites]
    /\ UNCHANGED <<handler, session, nextSession, isAsyncMethod, result, hstate,
                   wres, sends, writableFinished, unhandled>>
    /\ UNCHANGED <<db, db0, req, originAccount, destAccount, dbops>>

\* line 43-47: inner finally: await session.endSession().  Afterwards the
\* pending completion goes on: a throw (from the inner catch, or from
\* endSession itself) is caught by the outer catch; a return or a normal
\* completion leaves the outer try through the outer finally.
InnerFinally(r) ==
    /\ pc[r] = "innerFinally"
    /\ \E ok \in BOOLEAN :
        /\ calls' = Called(r, "endSession", ok)
        /\ Goto(r, IF ok /\ compl[r] # "throw" THEN "outerFinally" ELSE "outerCatch")
    /\ UNCHANGED <<handler, session, nextSession, isAsyncMethod, compl, result,
                   hstate, wres, sends, writableFinished, unhandled, store>>

\* line 49-55: outer catch: isAsyncMethod = false; await session.abortTransaction()
OuterCatch(r) ==
    /\ pc[r] = "outerCatch"
    /\ isAsyncMethod' = [isAsyncMethod EXCEPT ![r] = FALSE]
    /\ \E ok \in BOOLEAN :
        /\ calls' = Called(r, "abortTransaction", ok)
        /\ compl' = [compl EXCEPT ![r] = IF ok THEN "normal" ELSE "throw"]
    /\ Goto(r, "outerFinally")
    /\ txn' = [txn EXCEPT ![r] = NoWrites]
    /\ UNCHANGED <<handler, session, nextSession, result, hstate, wres, sends,
                   writableFinished, unhandled>>
    /\ UNCHANGED <<db, db0, req, originAccount, destAccount, dbops>>

\* line 56-58: outer finally with isAsyncMethod true: nothing to do, the
\* wrapped function completes with the pending completion
OuterFinallySkip(r) ==
    /\ pc[r] = "outerFinally"
    /\ isAsyncMethod[r]
    /\ wres' = Settled(r, compl[r])
    /\ Goto(r, "settled")
    /\ UNCHANGED <<handler, session, nextSession, isAsyncMethod, calls, compl,
                   result, hstate, sends, writableFinished, unhandled, store>>

\* line 58-60: outer finally with isAsyncMethod false: await session.endSession().
\* A raise replaces the pending completion and leaves the function.
OuterEndSession(r) ==
    /\ pc[r] = "outerFinally"
    /\ ~isAsyncMethod[r]
    /\ \E ok \in BOOLEAN :
        /\ calls' = Called(r, "endSession", ok)
        /\ IF ok
           THEN /\ Goto(r, "outerSend")
                /\ UNCHANGED wres
           ELSE /\ wres' = Settled(r, "throw")
                /\ Goto(r, "settled")
    /\ UNCHANGED <<handler, session, nextSession, isAsyncMethod, compl, result,
                   hstate, sends, writableFinished, unhandled, store>>

\* OuterSend without the send: the function just completes
OuterSendNothing(r) ==
    /\ pc[r] = "outerSend"
    /\ wres' = Settled(r, compl[r])
    /\ Goto(r, "settled")
    /\ UNCHANGED <<handler, session, nextSession, isAsyncMethod, calls, compl,
                   result, hstate, sends, writableFinished, unhandled, store>>

\* line 62: args[1].status(500).send("An error occurred!"), not guarded by
\* any test of the response; then the function completes.  The send raises
\* when a response was already written.
OuterSend(r) ==
    /\ pc[r] = "outerSend"
    /\ sends' = Sent(r, WrapperResponse)
    /\ wres' = Settled(r, IF SendRaises(r) THEN "throw" ELSE compl[r])
    /\ Goto(r, "settled")
    /\ UNCHANGED <<handler, session, nextSession, isAsyncMethod, calls, compl,
                   result, hstate, writableFinished, unhandled, store>>

----------------------------------------------------------------------------
(* transferFunds (AccountController.ts:29-92) behind the two routes         *)

\* A transfer request arrives on route e with body b.  Route applies the
\* method: the transactional one is the wrapped function, which awaits
\* startSession(); the other one calls transferFunds without a session,
\* which awaits the find of the origin account.
TransferRequest(r, e, b) ==
    /\ pc[r] = "idle"
    /\ handler' = [handler EXCEPT ![r] = TransferHandler]
    /\ req' = [req EXCEPT ![r] =
                [endpoint |-> e,
                 origin_account_number |-> b.origin_account_number,
                 destination_account_number |-> b.destination_account_number,
                 amount |-> b.amount]]
    /\ IF e = "transactional_transfer"
       THEN /\ Goto(r, "startSession")
            /\ UNCHANGED hstate
       ELSE /\ Goto(r, "findOrigin")
            /\ hstate' = [hstate EXCEPT ![r] = "pending"]
    /\ UNCHANGED <<session, nextSession, isAsyncMethod, calls, compl, result,
                   wres, sends, writableFinished, unhandled>>
    /\ UNCHANGED <<db, db0, txn, originAccount, destAccount, dbops>>

\* HandlerEnds where transferFunds returns after every response, the blocked
\* destination included
HandlerEndsReturning(r, st) ==
    /\ hstate' = [hstate EXCEPT ![r] = "resolved"]
    /\ IF req[r].endpoint = "transactional_transfer"
       THEN /\ Goto(r, "commit")
            /\ UNCHANGED wres
       ELSE /\ wres' = [wres EXCEPT ![r] = [state |-> "resolved", value |-> Undefined]]
            /\ Goto(r, "settled")

\* transferFunds ends, and with it the promise of the route method: st is
\* "resolved" after a return, "rejected" after a throw.  Under the wrapper
\* the await of line 30 goes on to the commit or to the inner catch;
\* without it the promise is the one Route looks at.
HandlerEnds(r, st) ==
    /\ hstate' = [hstate EXCEPT ![r] = st]
    /\ IF req[r].endpoint = "transactional_transfer"
       THEN /\ Goto(r, IF st = "resolved" THEN "commit" ELSE "innerCatch")
            /\ UNCHANGED wres
       ELSE /\ wres' = [wres EXCEPT ![r] = [state |-> st, value |-> Undefined]]
            /\ Goto(r, "settled")

\* Write that does not pass the session on: applied to the collection at once
WriteUnscoped(r, id, balance) ==
    /\ db' = [db EXCEPT ![id].account_balance = balance]
    /\ UNCHANGED txn

\* Write that is held back until a commit, session or not
WriteBuffered(r, id, balance) ==
    /\ txn' = [txn EXCEPT ![r] = (id :> balance) @@ @]
    /\ UNCHANGED db

\* doc.save(): under a session the write belongs to its transaction,
\* without one it is applied to the collection at once
Write(r, id, balance) ==
    IF Scoped(r)
    THEN /\ txn' = [txn EXCEPT ![r] = (id :> balance) @@ @]
         /\ UNCHANGED db
    ELSE /\ db' = [db EXCEPT ![id].account_balance = balance]
         /\ UNCHANGED txn

\* the response of transferFunds when the origin account is not debited
\* (AccountController.ts:77-91)
OriginRejection(found, amount) ==
    IF Len(found) = 1
    THEN IF found[1].is_blocked
         THEN Response(400, "Origin account is blocked!")
         ELSE Response(400, "Not enough origin account balance!")
    ELSE IF Len(found) = 0
         THEN Response(404, "Origin account not found!")
         ELSE Response(500, "Internal error!")

\* FindOrigin with balance >= amount in place of balance > amount
FindOriginAtLeast(r) ==
    /\ pc[r] = "findOrigin"
    /\ \E ok \in BOOLEAN :
        /\ dbops' = Operated(r, "find", ok)
        /\ IF ~ok
           THEN /\ HandlerEnds(r, "rejected")
                /\ UNCHANGED <<sends, originAccount>>
           ELSE LET found == Find(View(r), req[r].origin_account_number) IN
                IF /\ Len(found) = 1
                   /\ ~found[1].is_blocked
                   /\ found[1].account_balance >= req[r].amount
                THEN /\ originAccount' = [originAccount EXCEPT ![r] =
                            <<[found[1] EXCEPT !.account_balance = @ - req[r].amount]>>]
                     /\ Goto(r, "saveOrigin")
                     /\ UNCHANGED <<sends, hstate, wres>>
                ELSE /\ originAccount' = [originAccount EXCEPT ![r] = found]
                     /\ sends' = Sent(r, OriginRejection(found, req[r].amount))
                     /\ HandlerEnds(r, "resolved")
    /\ UNCHANGED <<handler, session, nextSession, isAsyncMethod, calls, compl,
                   result, writableFinished, unhandled>>
    /\ UNCHANGED <<db, db0, txn, req, destAccount>>

\* line 31-43 and 77-91: find the origin account (a raise of find rejects the
\* promise) and test it: one match, not blocked, balance > amount goes on
\* with the balance decremented in memory; anything else is answered here.
FindOrigin(r) ==
    /\ pc[r] = "findOrigin"
    /\ \E ok \in BOOLEAN :
        /\ dbops' = Operated(r, "find", ok)
        /\ IF ~ok
           THEN /\ HandlerEnds(r, "rejected")
                /\ UNCHANGED <<sends, originAccount>>
           ELSE LET found == Find(View(r), req[r].origin_account_number) IN
                IF /\ Len(found) = 1
                   /\ ~found[1].is_blocked
                   /\ found[1].account_balance > req[r].amount
                THEN /\ originAccount' = [originAccount EXCEPT ![r] =
                            <<[found[1] EXCEPT !.account_balance = @ - req[r].amount]>>]
                     /\ Goto(r, "saveOrigin")
                     /\ UNCHANGED <<sends, hstate, wres>>
                ELSE /\ originAccount' = [originAccount EXCEPT ![r] = found]
                     /\ sends' = Sent(r, OriginRejection(found, req[r].amount))
                     /\ HandlerEnds(r, "resolved")
    /\ UNCHANGED <<handler, session, nextSession, isAsyncMethod, calls, compl,
                   result, writableFinished, unhandled>>
    /\ UNCHANGED <<db, db0, txn, req, destAccount>>

\* line 47: await originAccount[0].save()
SaveOrigin(r) ==
    /\ pc[r] = "saveOrigin"
    /\ \E ok \in BOOLEAN :
        /\ dbops' = Operated(r, "save", ok)
        /\ IF ok
           THEN /\ Write(r, originAccount[r][1].id, originAccount[r][1].account_balance)
                /\ Goto(r, "findDest")
                /\ UNCHANGED <<hstate, wres>>
           ELSE /\ HandlerEnds(r, "rejected")
                /\ UNCHANGED <<db, txn>>
    /\ UNCHANGED <<handler, session, nextSession, isAsyncMethod, calls, compl,
                   result, sends, writableFinished, unhandled>>
    /\ UNCHANGED <<db0, req, originAccount, destAccount>>

\* line 49-58 and 66-76: find the destination account and test it: one match,
\* not blocked goes on with the balance incremented in memory; one blocked
\* match is answered 400 and then an Error is thrown; no match and several
\* matches are answered and the function returns.
FindDest(r) ==
    /\ pc[r] = "findDest"
    /\ \E ok \in BOOLEAN :
        /\ dbops' = Operated(r, "find", ok)
        /\ IF ~ok
           THEN /\ HandlerEnds(r, "rejected")
                /\ UNCHANGED <<sends, destAccount>>
           ELSE LET found == Find(View(r), req[r].destination_account_number) IN
                IF Len(found) = 1 /\ ~found[1].is_blocked
                THEN /\ destAccount' = [destAccount EXCEPT ![r] =
                            <<[found[1] EXCEPT !.account_balance = @ + req[r].amount]>>]
                     /\ Goto(r, "saveDest")
                     /\ UNCHANGED <<sends, hstate, wres>>
                ELSE /\ destAccount' = [destAccount EXCEPT ![r] = found]
                     /\ IF Len(found) = 1
                        THEN /\ sends' = Sent(r, Response(400, "Destination account is blocked!"))
                             /\ HandlerEnds(r, "rejected")
                        ELSE /\ sends' = Sent(r,
                                    IF Len(found) = 0
                                    THEN Response(404, "Destination account not found!")
                                    ELSE Response(500, "Internal error!"))
                             /\ HandlerEnds(r, "resolved")
    /\ UNCHANGED <<handler, session, nextSession, isAsyncMethod, calls, compl,
                   result, writableFinished, unhandled>>
    /\ UNCHANGED <<db, db0, txn, req, originAccount>>

\* line 62-65: await destAccount[0].save(); res.status(200).send(..); return
SaveDest(r) ==
    /\ pc[r] = "saveDest"
    /\ \E ok \in BOOLEAN :
        /\ dbops' = Operated(r, "save", ok)
        /\ IF ok
           THEN /\ Write(r, destAccount[r][1].id, destAccount[r][1].account_balance)
                /\ sends' = Sent(r, Response(200, "Transfer realized!"))
                /\ HandlerEnds(r, "resolved")
           ELSE /\ HandlerEnds(r, "rejected")
                /\ UNCHANGED <<db, txn, sends>>
    /\ UNCHANGED <<handler, session, nextSession, isAsyncMethod, calls, compl,
                   result, writableFinished, unhandled>>
    /\ UNCHANGED <<db0, req, originAccount, destAccount>>

----------------------------------------------------------------------------
(* Route: the promise of the wrapped function has settled (Routes.ts:20-33) *)

\* Routes.ts:22-24: .then(result => result)
RouteThen(r) ==
    /\ pc[r] = "settled"
    /\ wres[r].state = "resolved"
    /\ Goto(r, "done")
    /\ UNCHANGED <<handler, session, nextSession, isAsyncMethod, calls, compl,
                   result, hstate, wres, sends, writableFinished, unhandled, store>>

\* Routes.ts:24-32: .catch: answer 500 unless res.writableFinished.  The send
\* raises when a response was written but is not yet finished, and the
\* promise Route returned then rejects with nobody handling it.
RouteCatch(r) ==
    /\ pc[r] = "settled"
    /\ wres[r].state = "rejected"
    /\ IF ~writableFinished[r]
       THEN /\ sends' = Sent(r, RouteResponse)
            /\ unhandled' = [unhandled EXCEPT ![r] = SendRaises(r)]
       ELSE UNCHANGED <<sends, unhandled>>
    /\ Goto(r, "done")
    /\ UNCHANGED <<handler, session, nextSession, isAsyncMethod, calls, compl,
                   result, hstate, wres, writableFinished, store>>

\* the response stream emits 'finish' some time after send() was called
Finish(r) ==
    /\ HeadersSent(r)
    /\ ~writableFinished[r]
    /\ writableFinished' = [writableFinished EXCEPT ![r] = TRUE]
    /\ UNCHANGED <<pc, handler, session, nextSession, isAsyncMethod, calls, compl,
                   result, hstate, wres, sends, unhandled, store>>

----------------------------------------------------------------------------

\* the storage layer and the event loop never run two steps at once: every
\* step below is one turn of request r
Step(r) ==
        \/ \E h \in Handlers : Request(r, h)
        \/ \E e \in Endpoints, b \in Bodies : TransferRequest(r, e, b)
        \/ FindOrigin(r)
        \/ SaveOrigin(r)
        \/ FindDest(r)
        \/ SaveDest(r)
        \/ StartSession(r)
        \/ StartTransaction(r)
        \/ Apply(r)
        \/ AwaitHandler(r)
        \/ Commit(r)
        \/ InnerCatch(r)
        \/ InnerFinally(r)
        \/ OuterCatch(r)
        \/ OuterFinallySkip(r)
        \/ OuterEndSession(r)
        \/ OuterSend(r)
        \/ RouteThen(r)
        \/ RouteCatch(r)
        \/ Finish(r)

Next == \E r \in Reqs : Step(r)

Spec == Init /\ [][Next]_vars

\* one request on its own, on the seeded collection
SoloNext == Step(1)

Solo == Init /\ [][SoloNext]_vars

\* one transfer request on its own, on any collection
TransfersInit ==
    /\ pc = [r \in Reqs |-> "idle"]
    /\ handler = [r \in Reqs |-> NoHandler]
    /\ session = [r \in Reqs |-> NoSession]
    /\ nextSession = 0
    /\ isAsyncMethod = [r \in Reqs |-> FALSE]
    /\ calls = [r \in Reqs |-> <<>>]
    /\ compl = [r \in Reqs |-> "normal"]
    /\ result = [r \in Reqs |-> Undefined]
    /\ hstate = [r \in Reqs |-> "notInvoked"]
    /\ wres = [r \in Reqs |-> Pending]
    /\ sends = [r \in Reqs |-> <<>>]
    /\ writableFinished = [r \in Reqs |-> FALSE]
    /\ unhandled = [r \in Reqs |-> FALSE]
    /\ db \in InitialDBs
    /\ db0 = db
    /\ txn = [r \in Reqs |-> NoWrites]
    /\ req = [r \in Reqs |-> NoRequest]
    /\ originAccount = [r \in Reqs |-> <<>>]
    /\ destAccount = [r \in Reqs |-> <<>>]
    /\ dbops = [r \in Reqs |-> <<>>]

TransfersNext ==
    \/ \E e \in Endpoints, b \in Bodies : TransferRequest(1, e, b)
    \/ FindOrigin(1)
    \/ SaveOrigin(1)
    \/ FindDest(1)
    \/ SaveDest(1)
    \/ StartSession(1)
    \/ StartTransaction(1)
    \/ Apply(1)
    \/ Commit(1)
    \/ InnerCatch(1)
    \/ InnerFinally(1)
    \/ OuterCatch(1)
    \/ OuterFinallySkip(1)
    \/ OuterEndSession(1)
    \/ OuterSend(1)
    \/ RouteThen(1)
    \/ RouteCatch(1)
    \/ Finish(1)

Transfers == TransfersInit /\ [][TransfersNext]_vars

\* no call on a session has raised
Calm == \A r \in Reqs : \A i \in 1..Len(calls[r]) : calls[r][i].ok

\* decorated methods that leave the response to the wrapper and the route
SilentHandlers == {h \in Handlers : ~h.responds}

\* several invocations of a decorated method at once, interleaved in every
\* way, the calls on their sessions not raising
ConcurrentNext ==
    \E r \in Reqs :
        \/ (\E h \in SilentHandlers : Request(r, h))
        \/ StartSession(r)
        \/ StartTransaction(r) /\ Calm'
        \/ Apply(r)
        \/ AwaitHandler(r)
        \/ Commit(r) /\ Calm'
        \/ InnerCatch(r) /\ Calm'
        \/ InnerFinally(r) /\ Calm'
        \/ OuterCatch(r) /\ Calm'
        \/ OuterFinallySkip(r)
        \/ OuterEndSession(r) /\ Calm'
        \/ OuterSend(r)
        \/ RouteThen(r)
        \/ RouteCatch(r)
        \/ Finish(r)

Concurrent == Init /\ [][ConcurrentNext]_vars

\* no find and no save has raised
Working == \A r \in Reqs : \A i \in 1..Len(dbops[r]) : dbops[r][i].ok

\* several transfers of positive amounts at once on the route without
\* transaction, interleaved in every way at their awaits, on the seeded
\* collection, the finds and saves not raising
RacingNext ==
    \E r \in Reqs :
        \/ (\E b \in Bodies :
                /\ b.amount > 0
                /\ TransferRequest(r, "not_transactional_transfer", b))
        \/ FindOrigin(r) /\ Working'
        \/ SaveOrigin(r) /\ Working'
        \/ FindDest(r) /\ Working'
        \/ SaveDest(r) /\ Working'
        \/ RouteThen(r)
        \/ RouteCatch(r)

Racing == Init /\ [][RacingNext]_vars

----------------------------------------------------------------------------
(* vocabulary of the properties *)

\* the names of the session calls request r made, in order
Ops(r) == [i \in 1..Len(calls[r]) |-> calls[r][i].op]

\* how many times request r called op on its session
Count(r, op) == Cardinality({i \in 1..Len(calls[r]) : calls[r][i].op = op})

\* the invocation of the wrapped function has completed
Completed(r) == pc[r] \in {"settled", "done"}

\* session acquisition succeeded
Acquired(r) == session[r] # NoSession

\* request r goes through the wrapped function (every route method but
\* notTransactionalTransferFundsTo is decorated with MongooseTransactional)
Wrapped(r) == req[r].endpoint # "not_transactional_transfer"

\* what the decorated method of request r returns or resolves to
HandlerValue(r) == IF handler[r].kind = "transfer" THEN Undefined ELSE HValue

\* the response the client of request r received is resp
Delivered(r, resp) == sends[r] # <<>> /\ sends[r][1] = resp

\* request r attempted a send on behalf of `by`
Attempted(r, by) == \E i \in 1..Len(sends[r]) : sends[r][i].by = by

\* every endSession of request r comes after a call of one of ops
EndAfter(r, ops) ==
    \A i \in 1..Len(calls[r]) :
        calls[r][i].op = "endSession" =>
            \E j \in 1..(i - 1) : calls[r][j].op \in ops

\* a commit, an abort or an endSession of request r raised
StepRaised(r) ==
    \E i \in 1..Len(calls[r]) :
        /\ calls[r][i].op \in {"commitTransaction", "abortTransaction", "endSession"}
        /\ ~calls[r][i].ok

----------------------------------------------------------------------------
(* C1 - C10: the transactional wrapper *)

\* C1: whenever session acquisition succeeded, endSession has been called
\* exactly once by the time the invocation completes, on every branch,
\* including those where commitTransaction or abortTransaction raises.
C1_EndSessionExactlyOnce ==
    \A r \in Reqs :
        (Completed(r) /\ Acquired(r)) => Count(r, "endSession") = 1

\* C2: whenever session acquisition succeeded, exactly one of
\* commitTransaction and abortTransaction is attempted (never both, never
\* neither), and it is attempted before endSession is called.
C2_ExactlyOneOfCommitAbort ==
    \A r \in Reqs :
        (Completed(r) /\ Acquired(r)) =>
            /\ (Count(r, "commitTransaction") > 0) # (Count(r, "abortTransaction") > 0)
            /\ EndAfter(r, {"commitTransaction", "abortTransaction"})

\* C3: when H returns an immediate value without raising, the wrapper calls
\* commitTransaction, then endSession, and the wrapped function yields H's
\* return value.
C3_SyncReturnCommits ==
    \A r \in Reqs :
        (hstate[r] = "returned" /\ Completed(r)) =>
            /\ Ops(r) = <<"startTransaction", "commitTransaction", "endSession">>
            /\ wres[r] = [state |-> "resolved", value |-> HandlerValue(r)]

\* C4: when H returns a promise that resolves, the wrapper waits for it, then
\* calls commitTransaction, then endSession, the wrapped function resolves to
\* the value H's promise resolved to, and abortTransaction is not called.
C4_ResolveCommits ==
    \A r \in Reqs :
        /\ (Wrapped(r) /\ hstate[r] = "pending") => Ops(r) = <<"startTransaction">>
        /\ (Wrapped(r) /\ hstate[r] = "resolved" /\ Completed(r)) =>
            /\ Ops(r) = <<"startTransaction", "commitTransaction", "endSession">>
            /\ wres[r] = [state |-> "resolved", value |-> HandlerValue(r)]
            /\ Count(r, "abortTransaction") = 0

\* C5: when H returns a promise that rejects, the wrapper calls
\* abortTransaction and then endSession, and never calls commitTransaction
\* in that invocation.
C5_RejectAborts ==
    \A r \in Reqs :
        (Wrapped(r) /\ hstate[r] = "rejected") =>
            /\ Count(r, "commitTransaction") = 0
            /\ EndAfter(r, {"abortTransaction"})
            /\ Completed(r) =>
                /\ Count(r, "abortTransaction") > 0
                /\ Count(r, "endSession") > 0

C5_Witness ==
    \E r \in Reqs :
        /\ Wrapped(r)
        /\ hstate[r] = "rejected"
        /\ pc[r] = "done"
        /\ Ops(r) = <<"startTransaction", "abortTransaction", "endSession">>

\* C6: when H returns a promise that rejects: if H already sent a response,
\* the wrapper sends none and H's response is not overwritten; if H sent no
\* response, the wrapper emits 500 "An error occurred!".
C6_RejectResponse ==
    \A r \in Reqs :
        (Wrapped(r) /\ hstate[r] = "rejected" /\ pc[r] = "done") =>
            IF Attempted(r, "handler")
            THEN ~Attempted(r, "wrapper") /\ sends[r][1].by = "handler"
            ELSE Delivered(r, WrapperResponse)

C8_BeginBeforeHandler ==
    \A r \in Reqs :
        (Wrapped(r) /\ hstate[r] # "notInvoked") =>
            /\ Acquired(r)
            /\ calls[r] # <<>>
            /\ calls[r][1] = [op |-> "startTransaction", ok |-> TRUE]
            /\ \A q \in Reqs \ {r} : session[q] # session[r]

C8_Witness ==
    \E r \in Reqs :
        /\ Wrapped(r)
        /\ hstate[r] = "pending"
        /\ Acquired(r)
        /\ Ops(r) = <<"startTransaction">>

\* C9: if startSession fails, H is not invoked, none of startTransaction,
\* commitTransaction, abortTransaction, endSession is called, and the failure
\* propagates out of the wrapped function (its promise rejects).
C9_AcquisitionFailure ==
    \A r \in Reqs :
        (Wrapped(r) /\ pc[r] \notin {"idle", "startSession"} /\ ~Acquired(r)) =>
            /\ hstate[r] = "notInvoked"
            /\ calls[r] = <<>>
            /\ wres[r].state = "rejected"

C9_Witness ==
    \E r \in Reqs :
        /\ Wrapped(r)
        /\ pc[r] = "done"
        /\ ~Acquired(r)
        /\ wres[r].state = "rejected"
        /\ sends[r] = <<RouteResponse>>

\* C10: an error raised by commitTransaction, abortTransaction or endSession
\* is not caught by the wrapper: the wrapped function rejects and the routing
\* fallback answers 500 "An unexpected error occurred while executing the
\* request".
C10_StepErrorPropagates ==
    \A r \in Reqs :
        (pc[r] = "done" /\ StepRaised(r)) =>
            /\ wres[r].state = "rejected"
            /\ Delivered(r, RouteResponse)

----------------------------------------------------------------------------
(* vocabulary of the properties about transfers *)

\* request r is a transfer request / one on the transactional route
IsTransfer(r) == handler[r].kind = "transfer"

Transactional(r) == IsTransfer(r) /\ req[r].endpoint = "transactional_transfer"

NotTransactional(r) == IsTransfer(r) /\ req[r].endpoint = "not_transactional_transfer"

\* the documents the request names, as they were before the request
Origin0(r) == Find(db0, req[r].origin_account_number)

Dest0(r) == Find(db0, req[r].destination_account_number)

\* the origin exists once, is not blocked and has a balance above the amount
OriginGood(r) ==
    /\ Len(Origin0(r)) = 1
    /\ ~Origin0(r)[1].is_blocked
    /\ Origin0(r)[1].account_balance > req[r].amount

\* the destination exists once and is blocked / is not blocked
DestBlocked(r) == Len(Dest0(r)) = 1 /\ Dest0(r)[1].is_blocked

DestGood(r) == Len(Dest0(r)) = 1 /\ ~Dest0(r)[1].is_blocked

\* the committed documents numbered n are what they were before the request
Same(n) == Find(db, n) = Find(db0, n)

\* the committed balance of the one account numbered n, now and before
Balance(n) == Find(db, n)[1].account_balance

Balance0(n) == Find(db0, n)[1].account_balance

\* transferFunds ran for request r and none of its finds and saves raised
Served(r) ==
    /\ hstate[r] # "notInvoked"
    /\ \A i \in 1..Len(dbops[r]) : dbops[r][i].ok

\* commitTransaction returned for request r
CommitReturned(r) ==
    \E i \in 1..Len(calls[r]) : calls[r][i] = [op |-> "commitTransaction", ok |-> TRUE]

----------------------------------------------------------------------------
(* C11 - C20: responses, the transfer properties P1 - P5, atomicity *)

\* C11: every request to the transactional or the non-transactional transfer
\* route has received a response when it is over, on every path, the ones
\* where a find or a save raises or a transaction step fails included.
C11_AlwaysAnswered ==
    \A r \in Reqs :
        (IsTransfer(r) /\ pc[r] = "done") => HeadersSent(r)

\* C12 as stated (P1): for any transfer whose destination account is blocked,
\* on the transactional route, the committed origin balance and the
\* destination balance are what they were before the call and the response
\* body is "Destination account is blocked!".
C12_BlockedRollbackOriginal ==
    \A r \in Reqs :
        (Transactional(r) /\ DestBlocked(r) /\ Served(r) /\ pc[r] = "done") =>
            /\ Same(req[r].origin_account_number)
            /\ Same(req[r].destination_account_number)
            /\ Delivered(r, Response(400, "Destination account is blocked!"))

\* C12 amended (P1): for any transfer whose destination account is blocked,
\* on the transactional route, the committed origin balance and the
\* destination balance after the call are what they were before it; when
\* moreover the origin exists once, is not blocked and has a balance above
\* the amount, the response is "Destination account is blocked!".
C12_BlockedRollback ==
    \A r \in Reqs :
        (Transactional(r) /\ DestBlocked(r) /\ pc[r] = "done") =>
            /\ Same(req[r].origin_account_number)
            /\ Same(req[r].destination_account_number)
            /\ (OriginGood(r) /\ Served(r)) =>
                    Delivered(r, Response(400, "Destination account is blocked!"))

C12_Witness ==
    \E r \in Reqs :
        /\ Transactional(r) /\ DestBlocked(r) /\ OriginGood(r) /\ pc[r] = "done"
        /\ req[r].amount > 0
        /\ Len(dbops[r]) = 3
        /\ "abortTransaction" \in {calls[r][i].op : i \in 1..Len(calls[r])}
        /\ db = db0
        /\ Delivered(r, Response(400, "Destination account is blocked!"))

\* C13 (P2): for a transfer whose destination account is blocked, with an
\* origin that exists once, is not blocked and has a balance above the
\* amount, on the non-transactional route, the origin balance ends
\* decremented by the amount, the destination balance is unchanged and the
\* response is "Destination account is blocked!".
C13_BlockedNoRollback ==
    \A r \in Reqs :
        (NotTransactional(r) /\ DestBlocked(r) /\ OriginGood(r) /\ Served(r)
            /\ pc[r] = "done") =>
            /\ Balance(req[r].origin_account_number) =
                    Balance0(req[r].origin_account_number) - req[r].amount
            /\ Same(req[r].destination_account_number)
            /\ Delivered(r, Response(400, "Destination account is blocked!"))

C13_Witness ==
    \E r \in Reqs :
        /\ NotTransactional(r) /\ DestBlocked(r) /\ OriginGood(r) /\ pc[r] = "done"
        /\ req[r].amount > 0
        /\ Len(dbops[r]) = 3
        /\ Balance(req[r].origin_account_number) =
                Balance0(req[r].origin_account_number) - req[r].amount
        /\ Delivered(r, Response(400, "Destination account is blocked!"))

\* C14 as stated (P3): for an unblocked origin with balance B_o > amount and
\* an unblocked destination with balance B_d, a transfer on the transactional
\* route ends with committed origin balance B_o - amount, destination
\* balance B_d + amount and the response 200 "Transfer realized!".
C14_SuccessOriginal ==
    \A r \in Reqs :
        (Transactional(r) /\ OriginGood(r) /\ DestGood(r)
            /\ Served(r) /\ CommitReturned(r) /\ pc[r] = "done") =>
            /\ Balance(req[r].origin_account_number) =
                    Balance0(req[r].origin_account_number) - req[r].amount
            /\ Balance(req[r].destination_account_number) =
                    Balance0(req[r].destination_account_number) + req[r].amount
            /\ Delivered(r, Response(200, "Transfer realized!"))

\* C14 amended (P3): for an unblocked origin with balance B_o > amount and an
\* unblocked destination with balance B_d, a transfer on the transactional
\* route is answered 200 "Transfer realized!"; when the destination is
\* another account than the origin it ends with committed origin balance
\* B_o - amount and destination balance B_d + amount, and when it is the
\* origin itself the balance ends as it was.
C14_SuccessBalances ==
    \A r \in Reqs :
        (Transactional(r) /\ OriginGood(r) /\ DestGood(r)
            /\ Served(r) /\ CommitReturned(r) /\ pc[r] = "done") =>
            /\ Delivered(r, Response(200, "Transfer realized!"))
            /\ IF req[r].origin_account_number # req[r].destination_account_number
               THEN /\ Balance(req[r].origin_account_number) =
                            Balance0(req[r].origin_account_number) - req[r].amount
                    /\ Balance(req[r].destination_account_number) =
                            Balance0(req[r].destination_account_number) + req[r].amount
               ELSE Same(req[r].origin_account_number)

C14_Witness ==
    \E r \in Reqs :
        /\ Transactional(r) /\ OriginGood(r) /\ DestGood(r) /\ pc[r] = "done"
        /\ req[r].origin_account_number # req[r].destination_account_number
        /\ req[r].amount > 0
        /\ CommitReturned(r)
        /\ Balance(req[r].origin_account_number) =
                Balance0(req[r].origin_account_number) - req[r].amount
        /\ Balance(req[r].destination_account_number) =
                Balance0(req[r].destination_account_number) + req[r].amount
        /\ Delivered(r, Response(200, "Transfer realized!"))

\* C15 as stated (P4): a transfer whose amount equals the origin balance, and
\* any amount with balance <= amount, is answered
\* 400 "Not enough origin account balance!" and changes no account.
C15_BoundaryOriginal ==
    \A r \in Reqs :
        (IsTransfer(r) /\ Served(r)
            /\ Len(Origin0(r)) = 1
            /\ Origin0(r)[1].account_balance <= req[r].amount
            /\ pc[r] = "done") =>
            /\ db = db0
            /\ txn[r] = NoWrites
            /\ Delivered(r, Response(400, "Not enough origin account balance!"))

\* C15 amended (P4): a transfer whose amount equals the origin balance, and any
\* amount with balance <= amount, changes no account and is answered 400:
\* "Not enough origin account balance!" when the origin is not blocked,
\* "Origin account is blocked!" when it is.
C15_Boundary ==
    \A r \in Reqs :
        (IsTransfer(r) /\ Served(r)
            /\ Len(Origin0(r)) = 1
            /\ Origin0(r)[1].account_balance <= req[r].amount
            /\ pc[r] = "done") =>
            /\ db = db0
            /\ txn[r] = NoWrites
            /\ Delivered(r, Response(400,
                    IF Origin0(r)[1].is_blocked
                    THEN "Origin account is blocked!"
                    ELSE "Not enough origin account balance!"))

C15_Witness ==
    \E r \in Reqs :
        /\ IsTransfer(r) /\ pc[r] = "done"
        /\ Len(Origin0(r)) = 1 /\ ~Origin0(r)[1].is_blocked
        /\ Origin0(r)[1].account_balance = req[r].amount
        /\ db = db0
        /\ Delivered(r, Response(400, "Not enough origin account balance!"))

\* C16 (P5): a transfer that names an origin account number, or a destination
\* account number, that does not exist is answered the corresponding 404
\* message and leaves every account balance unchanged, on both routes.
C16_NotFound ==
    \A r \in Reqs :
        (IsTransfer(r) /\ Served(r) /\ pc[r] = "done") =>
            /\ Len(Origin0(r)) = 0 =>
                /\ Delivered(r, Response(404, "Origin account not found!"))
                /\ db = db0
            /\ (OriginGood(r) /\ Len(Dest0(r)) = 0) =>
                /\ Delivered(r, Response(404, "Destination account not found!"))
                /\ db = db0

\* C17: on the transactional route every transfer is atomic: whatever the
\* outcome, the committed collection after the call holds either both the
\* origin decrement and the destination increment, or neither.
C17_Atomic ==
    \A r \in Reqs :
        (Transactional(r) /\ pc[r] = "done") =>
            \/ db = db0
            \/ /\ Len(Origin0(r)) = 1 /\ Len(Dest0(r)) = 1
               /\ Balance(req[r].origin_account_number) =
                        Balance0(req[r].origin_account_number) - req[r].amount
               /\ Balance(req[r].destination_account_number) =
                        Balance0(req[r].destination_account_number) + req[r].amount

\* C18: starting from non-negative balances, whatever transfer requests are
\* made, with any integer amount, every committed account_balance is
\* non-negative.
C18_NonNegative ==
    \A i \in DOMAIN db : db[i].account_balance >= 0

\* C19: for every request a response is sent at most once: the wrapper and
\* the routing layer send only when the handler has not sent one already.
C19_OneResponse ==
    \A r \in Reqs :
        /\ Len(sends[r]) <= 1
        /\ \A i \in 1..Len(sends[r]) :
                sends[r][i].by \in {"wrapper", "route"} =>
                    \A j \in 1..(i - 1) : sends[r][j].by # "handler"

\* C20: each invocation of the wrapped function acquires a session of its
\* own: whatever the interleaving of the requests, the session handed to the
\* handler of one invocation, the one that invocation commits, aborts and
\* ends, is a session no other invocation holds, and none acquired before.
C20_OwnSession ==
    \A r \in Reqs :
        Acquired(r) =>
            /\ session[r] \in 1..nextSession
            /\ \A q \in Reqs \ {r} : session[q] # session[r]

C20_Witness ==
    \E r \in Reqs, q \in Reqs :
        /\ r # q
        /\ Acquired(r) /\ Acquired(q)
        /\ session[r] # session[q]
        /\ pc[r] = "awaitHandler"
        /\ pc[q] = "done"
        /\ "endSession" \in {calls[q][i].op : i \in 1..Len(calls[q])}

----------------------------------------------------------------------------
(* C21 - C30 *)

\* transferFunds has returned or thrown for request r
HandlerOver(r) == hstate[r] \in {"resolved", "rejected"}

\* the number of saves transferFunds has made for request r
Saves(r) == Cardinality({i \in 1..Len(dbops[r]) : dbops[r][i].op = "save"})

\* C21: when transferFunds is given a session every find and every save it
\* makes is scoped to that session; when it is given none, no find and no
\* save is scoped to a session and no session or transaction is created.
C21_SessionScope ==
    \A r \in Reqs :
        IsTransfer(r) =>
            /\ \A i \in 1..Len(dbops[r]) : dbops[r][i].scoped = Transactional(r)
            /\ NotTransactional(r) =>
                    /\ session[r] = NoSession
                    /\ calls[r] = <<>>
                    /\ txn[r] = NoWrites

C21_Witness ==
    \E r \in Reqs :
        /\ Transactional(r)
        /\ Len(dbops[r]) = 4
        /\ \A i \in 1..4 : dbops[r][i].scoped /\ dbops[r][i].ok
        /\ {dbops[r][i].op : i \in 1..4} = {"find", "save"}

\* C22: once the origin is debited the number of destination matches decides:
\* none is answered 404 "Destination account not found!" and transferFunds
\* returns; one blocked is answered 400 "Destination account is blocked!" and
\* transferFunds throws; several are answered 500 "Internal error!" and it
\* returns; one not blocked is credited the amount, saved, answered
\* 200 "Transfer realized!".  Only the blocked destination makes
\* transferFunds throw.
C22_DestinationOutcome ==
    \A r \in Reqs :
        (IsTransfer(r) /\ Served(r) /\ HandlerOver(r)) =>
            /\ hstate[r] = "rejected" => (OriginGood(r) /\ DestBlocked(r))
            /\ OriginGood(r) =>
                /\ Len(Dest0(r)) = 0 =>
                    /\ sends[r][1] = Response(404, "Destination account not found!")
                    /\ hstate[r] = "resolved"
                /\ DestBlocked(r) =>
                    /\ sends[r][1] = Response(400, "Destination account is blocked!")
                    /\ hstate[r] = "rejected"
                /\ Len(Dest0(r)) > 1 =>
                    /\ sends[r][1] = Response(500, "Internal error!")
                    /\ hstate[r] = "resolved"
                /\ DestGood(r) =>
                    /\ sends[r][1] = Response(200, "Transfer realized!")
                    /\ hstate[r] = "resolved"
                    /\ Saves(r) = 2
                    /\ (NotTransactional(r) \/ pc[r] = "commit") =>
                        Find(View(r), req[r].destination_account_number)[1].account_balance =
                            req[r].amount +
                            IF req[r].destination_account_number = req[r].origin_account_number
                            THEN Balance0(req[r].origin_account_number) - req[r].amount
                            ELSE Balance0(req[r].destination_account_number)

C22_Witness ==
    \E r \in Reqs :
        /\ IsTransfer(r) /\ Served(r) /\ OriginGood(r) /\ DestBlocked(r)
        /\ hstate[r] = "rejected"
        /\ sends[r][1] = Response(400, "Destination account is blocked!")

\* C23: the number of saves of one transfer is fixed by its outcome: two on
\* success (origin, then destination), one (the origin) when the destination
\* is blocked, missing or duplicated, none when the origin is rejected
\* (missing, duplicated, blocked, balance not above the amount).
C23_WriteCount ==
    \A r \in Reqs :
        (IsTransfer(r) /\ Served(r) /\ HandlerOver(r)) =>
            Saves(r) = IF OriginGood(r)
                       THEN IF DestGood(r) THEN 2 ELSE 1
                       ELSE 0

C23_Witness ==
    \E r \in Reqs :
        /\ IsTransfer(r) /\ Served(r) /\ HandlerOver(r)
        /\ OriginGood(r) /\ Len(Dest0(r)) = 0
        /\ Saves(r) = 1
        /\ originAccount[r][1].account_balance =
                Balance0(req[r].origin_account_number) - req[r].amount

\* C24: the calls on one session come in the order startTransaction, then
\* commit or abort, then endSession: none of startTransaction,
\* commitTransaction, abortTransaction is called after endSession, and
\* endSession is not called before a commit or an abort was attempted, also
\* when a transaction step raises.
C24_Lifecycle ==
    \A r \in Reqs :
        \A i \in 1..Len(calls[r]) :
            IF calls[r][i].op = "endSession"
            THEN \E j \in 1..(i - 1) :
                    calls[r][j].op \in {"commitTransaction", "abortTransaction"}
            ELSE \A j \in 1..(i - 1) : calls[r][j].op # "endSession"

\* C25: in one invocation commitTransaction is called at most once and
\* abortTransaction at most once, also when the call raises: a failed commit
\* or abort is not tried again.
C25_NoRetry ==
    \A r \in Reqs :
        /\ Count(r, "commitTransaction") <= 1
        /\ Count(r, "abortTransaction") <= 1

\* the decorated method of invocation r returned a promise
Async(r) == Wrapped(r) /\ hstate[r] \in {"pending", "resolved", "rejected"}

\* C26: while the promise the handler returned is pending the wrapper calls
\* none of commitTransaction, abortTransaction, endSession; and the outer
\* finally block does not end the session of an asynchronous handler.
C26_AwaitsHandler ==
    /\ [](\A r \in Reqs :
            (Async(r) /\ hstate[r] = "pending") =>
                \A i \in 1..Len(calls[r]) : calls[r][i].op = "startTransaction")
    /\ [][\A r \in Reqs :
            (Async(r) /\ pc[r] = "outerFinally") => calls'[r] = calls[r]]_vars

\* C27: a request on the transactional route answered 200 "Transfer realized!"
\* has its origin decrement and its destination increment committed.
C27_SuccessIsCommitted ==
    \A r \in Reqs :
        (Transactional(r) /\ pc[r] = "done"
            /\ Delivered(r, Response(200, "Transfer realized!"))
            /\ req[r].origin_account_number # req[r].destination_account_number) =>
            /\ Balance(req[r].origin_account_number) =
                    Balance0(req[r].origin_account_number) - req[r].amount
            /\ Balance(req[r].destination_account_number) =
                    Balance0(req[r].destination_account_number) + req[r].amount

\* C28: the wrapper sends 500 "An error occurred!" only in an invocation
\* whose handler raised an error or in which a transaction step failed,
\* never in one whose handler completed without error.
C28_FailureResponseOnFailure ==
    \A r \in Reqs :
        Attempted(r, "wrapper") =>
            \/ hstate[r] \in {"threw", "rejected"}
            \/ \E i \in 1..Len(calls[r]) : ~calls[r][i].ok

\* request r has saved the origin account with its amount taken off
Debited(r) == Len(dbops[r]) >= 2 /\ dbops[r][2].ok

\* the sum of the amounts of the requests of S that debited the origin
RECURSIVE SumDebits(_)
SumDebits(S) ==
    IF S = {} THEN 0
    ELSE LET r == CHOOSE x \in S : TRUE IN
         (IF Debited(r) THEN req[r].amount ELSE 0) + SumDebits(S \ {r})

\* C29: for concurrent transfers on the route without transaction that debit
\* the same origin account, however their finds and saves interleave, the
\* final origin balance is the initial balance minus the sum of the amounts
\* of the transfers that debited it.
C29_NoLostDebit ==
    (\A r \in Reqs :
        /\ pc[r] \in {"idle", "done"}
        /\ IsTransfer(r) =>
            /\ NotTransactional(r)
            /\ req[r].origin_account_number = OriginNumber
            /\ req[r].destination_account_number # OriginNumber) =>
        Balance(OriginNumber) = Balance0(OriginNumber) - SumDebits(Reqs)

\* what transferFunds answers and leaves in the collection v for the body b
\* when it is called without a session and no find or save raises
Outcome(v, b) ==
    LET o == Find(v, b.origin_account_number) IN
    IF /\ Len(o) = 1
       /\ ~o[1].is_blocked
       /\ o[1].account_balance > b.amount
    THEN LET v1 == [v EXCEPT ![o[1].id].account_balance = @ - b.amount]
             d == Find(v1, b.destination_account_number)
         IN  IF Len(d) = 1
             THEN IF ~d[1].is_blocked
                  THEN [response |-> Response(200, "Transfer realized!"),
                        db |-> [v1 EXCEPT ![d[1].id].account_balance = @ + b.amount]]
                  ELSE [response |-> Response(400, "Destination account is blocked!"),
                        db |-> v1]
             ELSE IF Len(d) = 0
                  THEN [response |-> Response(404, "Destination account not found!"),
                        db |-> v1]
                  ELSE [response |-> Response(500, "Internal error!"), db |-> v1]
    ELSE [response |-> OriginRejection(o, b.amount), db |-> v]

\* the outcome of request r is the blocked destination
BlockedOutcome(r) == Outcome(db0, req[r]).response.body = "Destination account is blocked!"

\* C30: for every initial collection and every transfer request whose outcome
\* is not the blocked destination, the transactional route (its session
\* acquired, its commit returned) and the route without transaction give the
\* same response and the same committed balances: on both, those of
\* transferFunds run without a session.  On a blocked destination the
\* responses are the same and the balances are not: the transactional route
\* leaves the initial ones.
C30_SameOutcome ==
    \A r \in Reqs :
        (IsTransfer(r) /\ Served(r) /\ pc[r] = "done") =>
            /\ Delivered(r, Outcome(db0, req[r]).response)
            /\ (NotTransactional(r) \/ (~BlockedOutcome(r) /\ CommitReturned(r))) =>
                    db = Outcome(db0, req[r]).db
            /\ (Transactional(r) /\ BlockedOutcome(r)) => db = db0

C30_Witness ==
    \E r \in Reqs :
        /\ Transactional(r) /\ Served(r) /\ pc[r] = "done" /\ CommitReturned(r)
        /\ Delivered(r, Response(404, "Destination account not found!"))
        /\ db = Outcome(db0, req[r]).db
        /\ db # db0

====
